---- MODULE Spec2Model ----
(***************************************************************************)
(* The resumable scraping orchestrator of scraper.js (the second half of   *)
(* src/maps/maps.js, lines 460-1056): main, processCountry,                *)
(* processStatesConcurrently, processCitiesConcurrently,                   *)
(* searchMapsWithRetry, the progress tree in memory and in progress.json,  *)
(* the result files and the SIGINT handler.                                *)
(*                                                                         *)
(* Node runs one callback at a time, so an action is the code between two  *)
(* awaits that wait for I/O or a timer.  An await of an already settled    *)
(* promise is no scheduling point for the other flows: its continuation   *)
(* runs as a microtask before the event loop serves any other callback.    *)
(***************************************************************************)
EXTENDS Integers, Sequences, FiniteSets, TLC

\* ------------------------------------------------------------------ bounds
NumCities == 2
MaxParallel == 2
MaxRetry == 1
\* For the functions taken alone: the longest list and the largest retry count.
MaxList == 2
MaxRetryAlone == 2
MaxFormats == 2
\* For searchGoogleMapsBatch: the longest query list and the largest maxConcurrent.
MaxQueries == 3
MaxConcurrent == 2

\* ------------------------------------------------- the location directory
\* The countries of the default target list (1008) that the runs use, and a
\* directory of two states per country with NumCities cities each.
Countries == {"IT", "MK"}
StateList == <<"S1", "S2">>
States == {StateList[i] : i \in DOMAIN StateList}
Cities == 1..NumCities
NoCity == 0
\* A file is absent, or holds one value.
NoFile == <<>>
File(x) == <<x>>
Content(f) == f[1]
\* A file whose writing was cut short holds a part of the text of x, which
\* no JSON parser accepts.
Torn(x) == <<x, "torn">>
IsTorn(f) == Len(f) = 2

\* `${country.iso2}-${state.name}` and `${country.iso2}-${state.iso2}-${city.name}`
StateKey(c, s) == <<c, s>>
CityKey(c, s, n) == <<c, s, n>>
StateKeys(c) == {StateKey(c, s) : s \in States}
CityKeys(c) == {CityKey(c, s, n) : s \in States, n \in Cities}
CityKeysOf(c, s) == {CityKey(c, s, n) : n \in Cities}

\* A leaf is a city, or a state (city NoCity) when city mode is off.
Leaves == {<<c, s, n>> : c \in Countries, s \in States, n \in Cities \cup {NoCity}}

\* The orders _.shuffle can return.
Perms(S) == {p \in [1..Cardinality(S) -> S] : \A i, j \in 1..Cardinality(S) : p[i] = p[j] => i = j}

\* --------------------------------------------------------- business records
\* What searchGoogleMaps can return for one query: nothing (also its own
\* catch, which returns []), or one listing.
RawBusinesses == {[name |-> "n1", formatted_address |-> "a1", phone_number |-> "p1"]}
FetchOutputs == {<<>>} \cup {<<b>> : b \in RawBusinesses}

\* searchMapsWithRetry adds the provenance fields to every record.
Tagged(b, c, s, n) ==
    [name |-> b.name, formatted_address |-> b.formatted_address,
     phone_number |-> b.phone_number, source_country |-> c, state |-> s, city |-> n]
UpdatedBusinesses(out, c, s, n) == [i \in 1..Len(out) |-> Tagged(out[i], c, s, n)]

\* removeDuplicates: the key is read from the fields name, address and
\* phone; the records carry formatted_address and phone_number, so the last
\* two parts of the key are the text "undefined" for every record.
Field(b, f) == IF f \in DOMAIN b THEN b[f] ELSE "undefined"
DedupKey(b) == <<Field(b, "name"), Field(b, "address"), Field(b, "phone")>>
\* Mutant: no key is remembered.
RECURSIVE DedupFrom_NoSeen(_, _, _)
DedupFrom_NoSeen(bs, i, seen) ==
    IF i > Len(bs) THEN <<>>
    ELSE IF DedupKey(bs[i]) \in seen THEN DedupFrom_NoSeen(bs, i + 1, seen)
    ELSE <<bs[i]>> \o DedupFrom_NoSeen(bs, i + 1, seen)

RECURSIVE DedupFrom(_, _, _)
DedupFrom(bs, i, seen) ==
    IF i > Len(bs) THEN <<>>
    ELSE IF DedupKey(bs[i]) \in seen THEN DedupFrom(bs, i + 1, seen)
    ELSE <<bs[i]>> \o DedupFrom(bs, i + 1, seen \cup {DedupKey(bs[i])})
removeDuplicates(bs) == DedupFrom(bs, 1, {})

\* ------------------------------------------------------------ progress tree
EmptyTree == [countries |-> {}, states |-> {}, cities |-> {}]
Trees(c) == [countries : SUBSET {c}, states : SUBSET StateKeys(c), cities : SUBSET CityKeys(c)]

\* The progress.json files a run can start from: no file, or a tree as the
\* documented progress tracking leaves it after working through the states
\* one at a time in their listing order: the first states are complete, each
\* with all its cities in city mode, the next one may have some of its
\* cities marked, and the country is marked only with all its states.
StartTrees(c, withCities) ==
    {t \in Trees(c) :
        /\ c \in t.countries => t.states = StateKeys(c)
        /\ \A i, j \in DOMAIN StateList :
              i < j /\ StateKey(c, StateList[j]) \in t.states => StateKey(c, StateList[i]) \in t.states
        /\ IF withCities
           THEN /\ \A s \in States : StateKey(c, s) \in t.states => CityKeysOf(c, s) \subseteq t.cities
                /\ \A i, j \in DOMAIN StateList :
                      i < j /\ CityKeysOf(c, StateList[j]) \cap t.cities # {}
                          => StateKey(c, StateList[i]) \in t.states
           ELSE t.cities = {}}

VARIABLES
    targets,            \* targetCountries, in the order main processes them
    cfg,                \* CONFIG: includeCities, parallel, retryCount
    proc,               \* "running" or "exited"
    exitBy,             \* "none", "sigint" (process.exit in the handler) or "end"
    isShuttingDown,
    allBusinesses, successfulCountries, failedCountries,
    pc, ci,             \* where main / processCountry / processStates is, and its country
    progressData,       \* the global tree in memory
    progressFile,       \* output/{query}/{country}/progress.json
    shuffledStates, si, results, stateBusinesses,
    shuffledCities, cityIndex, cityResults,
    flow,               \* searchMapsWithRetry calls: 0 is processStates' own, 1.. the workers
    cityFiles, stateFiles, cumulative, exportFile,
    searchCalls,        \* history: searchMapsWithRetry calls issued per leaf
    failedLeaves,       \* history: leaves whose every attempt threw
    startFile,          \* history: progress.json as the run found it
    listingFailed,      \* history: a states or cities listing threw
    call, ret           \* a function taken alone: its arguments, and what it gave

mainVars == <<allBusinesses, successfulCountries, failedCountries, pc, ci>>
stateVars == <<shuffledStates, si, results, stateBusinesses>>
cityVars == <<shuffledCities, cityIndex, cityResults>>
fileVars == <<cityFiles, stateFiles, cumulative, exportFile>>
histVars == <<searchCalls, failedLeaves, startFile, listingFailed>>
callVars == <<call, ret>>
vars == <<targets, cfg, proc, exitBy, isShuttingDown, mainVars, progressData,
          progressFile, stateVars, cityVars, flow, fileVars, histVars, callVars>>

Flows == 0..MaxParallel
IdleFlow == [pc |-> "idle", city |-> NoCity, attempt |-> 0, businesses |-> <<>>]

country == targets[ci]
state == shuffledStates[si]

\* A function taken alone: no call, and no result yet.
NoCall == [fn |-> "none", businesses |-> <<>>, retries |-> 0, script |-> <<>>]
NoReturn == <<>>

\* ------------------------------------------------------------------- Init
InitWith(ts, withCities, parallel, retryCount, files) ==
    /\ targets = ts
    /\ cfg = [includeCities |-> withCities, parallel |-> parallel, retryCount |-> retryCount]
    /\ proc = "running"
    /\ exitBy = "none"
    /\ isShuttingDown = FALSE
    /\ allBusinesses = <<>>
    /\ successfulCountries = 0
    /\ failedCountries = 0
    /\ pc = "main"
    /\ ci = 1
    /\ progressData = EmptyTree
    /\ progressFile = files
    /\ shuffledStates = <<>>
    /\ si = 1
    /\ results = <<>>
    /\ stateBusinesses = <<>>
    /\ shuffledCities = <<>>
    /\ cityIndex = 1
    /\ cityResults = <<>>
    /\ flow = [f \in Flows |-> IdleFlow]
    /\ cityFiles = [k \in UNION {CityKeys(c) : c \in Countries} |-> NoFile]
    /\ stateFiles = [k \in UNION {StateKeys(c) : c \in Countries} |-> NoFile]
    /\ cumulative = [c \in Countries |-> NoFile]
    /\ exportFile = [c \in Countries |-> NoFile]
    /\ searchCalls = [l \in Leaves |-> 0]
    /\ failedLeaves = {}
    /\ startFile = files
    /\ listingFailed = FALSE

\* One target country; every start file, mode, parallel limit and retry count.
Init ==
    \E withCities \in BOOLEAN, parallel \in 1..MaxParallel, retryCount \in 0..MaxRetry :
    \E t \in {File(tr) : tr \in StartTrees("MK", withCities)} \cup {NoFile} :
        /\ InitWith(<<"MK">>, withCities, parallel, retryCount,
                    [c \in Countries |-> IF c = "MK" THEN t ELSE NoFile])
        /\ call = NoCall
        /\ ret = NoReturn

\* ------------------------------------------------------------ main (986-1050)
\* processCountry has returned `businesses` to main's loop (1026-1029); its
\* catch (977-979) returns [] and lands here as well.
ReturnToMain(businesses) ==
    /\ allBusinesses' = allBusinesses \o businesses
    /\ successfulCountries' = successfulCountries + 1
    /\ ci' = ci + 1
    /\ pc' = "main"
    /\ UNCHANGED failedCountries

\* for (const country of targetCountries) { if (isShuttingDown) break; ...
MainLoop ==
    /\ proc = "running"
    /\ pc = "main"
    /\ pc' = IF ci > Len(targets) \/ isShuttingDown THEN "summary" ELSE "load"
    /\ UNCHANGED <<callVars, targets, cfg, proc, exitBy, isShuttingDown, allBusinesses,
                   successfulCountries, failedCountries, ci, progressData, progressFile,
                   stateVars, cityVars, flow, fileVars, histVars>>

\* main has printed its summary and returned: the process ends.
Exit ==
    /\ proc = "running"
    /\ pc = "summary"
    /\ proc' = "exited"
    /\ exitBy' = "end"
    /\ UNCHANGED <<callVars, targets, cfg, isShuttingDown, mainVars, progressData, progressFile,
                   stateVars, cityVars, flow, fileVars, histVars>>

\* ------------------------------------------------- loadProgress (668-679)
\* No file (671), or a file readJson cannot parse (672, caught at 675): the
\* empty tree of line 678.
loadProgress(c) ==
    IF progressFile[c] # NoFile /\ ~IsTorn(progressFile[c])
    THEN Content(progressFile[c]) ELSE EmptyTree

\* Mutant: the loaded tree's country mark is not looked at.
LoadProgress_NoShortCircuit ==
    /\ proc = "running"
    /\ pc = "load"
    /\ progressData' = loadProgress(country)
    /\ pc' = "list_states"
    /\ UNCHANGED <<callVars, targets, cfg, proc, exitBy, isShuttingDown, allBusinesses,
                   successfulCountries, failedCountries, ci, progressFile,
                   stateVars, cityVars, flow, fileVars, histVars>>

\* processCountry, lines 931-937: load the tree, return at once when the
\* country is complete.
LoadProgress ==
    /\ proc = "running"
    /\ pc = "load"
    /\ progressData' = loadProgress(country)
    /\ IF country \in progressData'.countries
       THEN ReturnToMain(<<>>)
       ELSE /\ pc' = "list_states"
            /\ UNCHANGED <<allBusinesses, successfulCountries, failedCountries, ci>>
    /\ UNCHANGED <<callVars, targets, cfg, proc, exitBy, isShuttingDown, progressFile,
                   stateVars, cityVars, flow, fileVars, histVars>>

\* Mutant: the error of the read leaves loadProgress and lands in
\* processCountry's catch, which returns [].
LoadProgressFail_Raise ==
    /\ proc = "running"
    /\ pc = "load"
    /\ progressFile[country] # NoFile
    /\ ReturnToMain(<<>>)
    /\ UNCHANGED <<callVars, targets, cfg, proc, exitBy, isShuttingDown, progressData,
                   progressFile, stateVars, cityVars, flow, fileVars, histVars>>

\* loadProgress's catch (675-677): pathExists or readJson throws, the warning
\* is logged and the empty tree is returned; the file stays as it is.
LoadProgressFail ==
    /\ proc = "running"
    /\ pc = "load"
    /\ progressFile[country] # NoFile
    /\ progressData' = EmptyTree
    /\ pc' = "list_states"
    /\ UNCHANGED <<callVars, targets, cfg, proc, exitBy, isShuttingDown, allBusinesses,
                   successfulCountries, failedCountries, ci, progressFile,
                   stateVars, cityVars, flow, fileVars, histVars>>

\* ------------------------------------- searchMapsWithRetry, first attempt
StartFetch(f, n) == [pc |-> "fetching", city |-> n, attempt |-> 0, businesses |-> <<>>]

\* Mutant: every key counts as marked.
NextUnmarked_SkipAll(keys, from, marked) == Len(keys) + 1

\* The first index at or after `from` whose key is not marked, Len + 1 if none.
RECURSIVE NextUnmarked(_, _, _)
NextUnmarked(keys, from, marked) ==
    IF from > Len(keys) THEN Len(keys) + 1
    ELSE IF keys[from] \in marked THEN NextUnmarked(keys, from + 1, marked)
    ELSE from

\* ------------------------------------ processStatesConcurrently (843-904)
\* The for loop from its head to its first await: the states already marked
\* are skipped (850-852); the first other one is listed for cities (859) or
\* fetched (872); with none left the function returns and processCountry
\* goes on to its export (963-964).
StatesLoop(p, from) ==
    LET keys == [i \in 1..Len(p) |-> StateKey(country, p[i])]
        i == NextUnmarked(keys, from, progressData.states)
    IN  /\ shuffledStates' = p
        /\ si' = i
        /\ IF i > Len(p)
           THEN /\ pc' = "export_country"
                /\ UNCHANGED <<flow, searchCalls>>
           ELSE IF cfg.includeCities
           THEN /\ pc' = "list_cities"
                /\ UNCHANGED <<flow, searchCalls>>
           ELSE /\ pc' = "state_fetch"
                /\ flow' = [flow EXCEPT ![0] = StartFetch(0, NoCity)]
                /\ searchCalls' = [searchCalls EXCEPT ![<<country, p[i], NoCity>>] = @ + 1]

\* processCountry, lines 940-960: the locale, the translation and the states
\* listing have returned; the states are shuffled and the loop is entered.
ListStates ==
    /\ proc = "running"
    /\ pc = "list_states"
    /\ \E p \in Perms(States) : StatesLoop(p, 1)
    /\ results' = <<>>
    /\ UNCHANGED <<callVars, targets, cfg, proc, exitBy, isShuttingDown, allBusinesses,
                   successfulCountries, failedCountries, ci, progressData, progressFile,
                   stateBusinesses, cityVars, fileVars,
                   failedLeaves, startFile, listingFailed>>

\* Mutant: the listing's error leaves processCountry and main, and the
\* process ends.
ListStatesFail_Abort ==
    /\ proc = "running"
    /\ pc = "list_states"
    /\ listingFailed' = TRUE
    /\ proc' = "exited"
    /\ exitBy' = "end"
    /\ UNCHANGED <<callVars, targets, cfg, isShuttingDown, mainVars, progressData, progressFile,
                   stateVars, cityVars, flow, fileVars,
                   searchCalls, failedLeaves, startFile>>

\* countrylocalemap or statesByCountry throws: processCountry's catch.
ListStatesFail ==
    /\ proc = "running"
    /\ pc = "list_states"
    /\ listingFailed' = TRUE
    /\ ReturnToMain(<<>>)
    /\ UNCHANGED <<callVars, targets, cfg, proc, exitBy, isShuttingDown, progressData, progressFile,
                   stateVars, cityVars, flow, fileVars,
                   searchCalls, failedLeaves, startFile>>

\* Lines 884-896, once the state's businesses are known: they are appended,
\* the state is marked, and a non-empty list is saved (892).  With nothing
\* to save the next statement is line 896, which reads cityKey, a name no
\* scope of processStatesConcurrently declares: it throws a ReferenceError,
\* which processCountry catches (977).
StateBoundary(businesses) ==
    /\ stateBusinesses' = businesses
    /\ results' = results \o businesses
    /\ progressData' = [progressData EXCEPT !.states = @ \cup {StateKey(country, state)}]
    /\ IF businesses # <<>>
       THEN /\ pc' = "save_state"
            /\ UNCHANGED <<allBusinesses, successfulCountries, failedCountries, ci>>
       ELSE ReturnToMain(<<>>)

\* saveStateResults, lines 610-615: the state's file is written.
SaveStateFile ==
    /\ proc = "running"
    /\ pc = "save_state"
    /\ stateFiles' = [stateFiles EXCEPT ![StateKey(country, state)] = File(stateBusinesses)]
    /\ pc' = "cumulative"
    /\ UNCHANGED <<callVars, targets, cfg, proc, exitBy, isShuttingDown, allBusinesses,
                   successfulCountries, failedCountries, ci, progressData, progressFile,
                   stateVars, cityVars, flow, cityFiles, cumulative, exportFile, histVars>>

\* updateCumulativeResults (626-641), then back in processStates line 896
\* throws and processCountry's catch returns [] to main.
UpdateCumulative ==
    /\ proc = "running"
    /\ pc = "cumulative"
    /\ LET existing == IF cumulative[country] = NoFile THEN <<>> ELSE Content(cumulative[country])
       IN  cumulative' = [cumulative EXCEPT ![country] = File(removeDuplicates(existing \o stateBusinesses))]
    /\ ReturnToMain(<<>>)
    /\ UNCHANGED <<callVars, targets, cfg, proc, exitBy, isShuttingDown, progressData, progressFile,
                   stateVars, cityVars, flow, cityFiles, stateFiles, exportFile, histVars>>

\* processCountry, lines 963-971: the export of the deduplicated results has
\* been written, the country is marked and saveProgress is awaited.
ExportCountry ==
    /\ proc = "running"
    /\ pc = "export_country"
    /\ exportFile' = [exportFile EXCEPT ![country] = File(removeDuplicates(results))]
    /\ progressData' = [progressData EXCEPT !.countries = @ \cup {country}]
    /\ pc' = "save_progress"
    /\ UNCHANGED <<callVars, targets, cfg, proc, exitBy, isShuttingDown, allBusinesses,
                   successfulCountries, failedCountries, ci, progressFile,
                   stateVars, cityVars, flow, cityFiles, stateFiles, cumulative, histVars>>

\* saveProgress (682-690) has written progress.json; processCountry returns
\* the deduplicated results (975).
SaveProgress ==
    /\ proc = "running"
    /\ pc = "save_progress"
    /\ progressFile' = [progressFile EXCEPT ![country] = File(progressData)]
    /\ ReturnToMain(removeDuplicates(results))
    /\ UNCHANGED <<callVars, targets, cfg, proc, exitBy, isShuttingDown, progressData,
                   stateVars, cityVars, flow, fileVars, histVars>>

\* ------------------------------------------- searchMapsWithRetry (744-777)
Leaf(f) == <<country, state, flow[f].city>>

\* Line 770: the attempt that threw was the last one allowed.
LastAttempt(f) == flow[f].attempt = cfg.retryCount

\* The catch of an attempt that was not the last (769-774): the failure is
\* logged, the wait of line 774 passes and the loop calls searchGoogleMaps
\* again.  The wait touches nothing another flow reads, so it is taken
\* together with the call that follows it.
NextAttempt(f) == [flow EXCEPT ![f].attempt = @ + 1]

\* ---------------------------------------- state mode, lines 872-896
\* searchGoogleMaps returns `out`; searchMapsWithRetry returns the tagged
\* list (764) and the state's boundary code runs.
StateFetchOk ==
    /\ proc = "running"
    /\ pc = "state_fetch"
    /\ flow[0].pc = "fetching"
    /\ \E out \in FetchOutputs :
        LET businesses == UpdatedBusinesses(out, country, state, "")
        IN  StateBoundary(businesses)
    /\ flow' = [flow EXCEPT ![0] = IdleFlow]
    /\ UNCHANGED <<callVars, targets, cfg, proc, exitBy, isShuttingDown, progressFile,
                   shuffledStates, si, cityVars, fileVars,
                   searchCalls, failedLeaves, startFile, listingFailed>>

\* searchGoogleMaps throws: another attempt, or after the last attempt
\* `return []` (772), which the caller cannot tell from an empty result.
StateFetchThrow ==
    /\ proc = "running"
    /\ pc = "state_fetch"
    /\ flow[0].pc = "fetching"
    /\ IF LastAttempt(0)
       THEN /\ StateBoundary(<<>>)
            /\ failedLeaves' = failedLeaves \cup {Leaf(0)}
            /\ flow' = [flow EXCEPT ![0] = IdleFlow]
       ELSE /\ flow' = NextAttempt(0)
            /\ UNCHANGED <<failedLeaves, stateBusinesses, results, progressData,
                           allBusinesses, successfulCountries, failedCountries, ci, pc>>
    /\ UNCHANGED <<callVars, targets, cfg, proc, exitBy, isShuttingDown, progressFile,
                   shuffledStates, si, cityVars, fileVars,
                   searchCalls, startFile, listingFailed>>

\* ------------------------------------ processCitiesConcurrently (793-840)
Workers == 1..cfg.parallel

\* Mutant: the claimed index is not stepped over (cities[cityIndex]).
processBatch_NoIncrement(st, w, cities, marked) ==
    LET keys == [i \in 1..Len(cities) |-> CityKey(country, state, cities[i])]
        i == NextUnmarked(keys, st.cityIndex, marked)
    IN  IF i > Len(cities)
        THEN [cityIndex |-> i,
              flow |-> [st.flow EXCEPT ![w] = [IdleFlow EXCEPT !.pc = "done"]],
              searchCalls |-> st.searchCalls]
        ELSE [cityIndex |-> i,
              flow |-> [st.flow EXCEPT ![w] = StartFetch(w, cities[i])],
              searchCalls |-> [st.searchCalls EXCEPT ![<<country, state, cities[i]>>] = @ + 1]]

\* One pass of processBatch's while loop from its head to its first await
\* (799-815), on the loop state st = [cityIndex, flow, searchCalls]: the
\* cities already marked are skipped, the next one is claimed by
\* cities[cityIndex++] and its first fetch is issued; with no city left the
\* worker's promise resolves.
processBatch(st, w, cities, marked) ==
    LET keys == [i \in 1..Len(cities) |-> CityKey(country, state, cities[i])]
        i == NextUnmarked(keys, st.cityIndex, marked)
    IN  IF i > Len(cities)
        THEN [cityIndex |-> i,
              flow |-> [st.flow EXCEPT ![w] = [IdleFlow EXCEPT !.pc = "done"]],
              searchCalls |-> st.searchCalls]
        ELSE [cityIndex |-> i + 1,
              flow |-> [st.flow EXCEPT ![w] = StartFetch(w, cities[i])],
              searchCalls |-> [st.searchCalls EXCEPT ![<<country, state, cities[i]>>] = @ + 1]]

\* Mutant: one worker more than the limit is started.
RECURSIVE StartWorkers_OneMore(_, _, _, _, _)
StartWorkers_OneMore(st, w, last, cities, marked) ==
    IF w > last + 1 THEN st
    ELSE StartWorkers_OneMore(processBatch(st, w, cities, marked), w + 1, last, cities, marked)

\* semaphore.map(() => processBatch()), line 838: the workers w..last start
\* one after the other, each running to its first await.
RECURSIVE StartWorkers(_, _, _, _, _)
StartWorkers(st, w, last, cities, marked) ==
    IF w > last THEN st
    ELSE StartWorkers(processBatch(st, w, cities, marked), w + 1, last, cities, marked)

\* Lines 859-869: the cities listing has returned; the cities are shuffled
\* and CONFIG.parallel workers are started.
ListCities ==
    /\ proc = "running"
    /\ pc = "list_cities"
    /\ \E p \in Perms(Cities) :
        LET st == StartWorkers([cityIndex |-> 1, flow |-> flow, searchCalls |-> searchCalls],
                               1, cfg.parallel, p, progressData.cities)
        IN  /\ shuffledCities' = p
            /\ cityIndex' = st.cityIndex
            /\ flow' = st.flow
            /\ searchCalls' = st.searchCalls
    /\ cityResults' = <<>>
    /\ pc' = "cities"
    /\ UNCHANGED <<callVars, targets, cfg, proc, exitBy, isShuttingDown, allBusinesses,
                   successfulCountries, failedCountries, ci, progressData, progressFile,
                   stateVars, fileVars, failedLeaves, startFile, listingFailed>>

\* citiesByCountryState throws: out of processStates into processCountry's catch.
ListCitiesFail ==
    /\ proc = "running"
    /\ pc = "list_cities"
    /\ listingFailed' = TRUE
    /\ ReturnToMain(<<>>)
    /\ UNCHANGED <<callVars, targets, cfg, proc, exitBy, isShuttingDown, progressData, progressFile,
                   stateVars, cityVars, flow, fileVars,
                   searchCalls, failedLeaves, startFile>>

\* Mutant: marking a city replaces the cities marked so far.
CityDone_Overwrite(w, businesses) ==
    /\ cityResults' = cityResults \o businesses
    /\ progressData' = [progressData EXCEPT !.cities = {CityKey(country, state, flow[w].city)}]
    /\ flow' = [flow EXCEPT ![w].pc = IF businesses # <<>> THEN "save_city" ELSE "delay",
                            ![w].businesses = businesses]

\* Lines 817-830 for worker w, whose searchMapsWithRetry returned
\* `businesses`: they are appended, the city is marked, and a non-empty list
\* is saved to the city's file before the delay.
CityDone(w, businesses) ==
    /\ cityResults' = cityResults \o businesses
    /\ progressData' = [progressData EXCEPT !.cities = @ \cup {CityKey(country, state, flow[w].city)}]
    /\ flow' = [flow EXCEPT ![w].pc = IF businesses # <<>> THEN "save_city" ELSE "delay",
                            ![w].businesses = businesses]

WorkerFetchOk(w) ==
    /\ proc = "running"
    /\ pc = "cities"
    /\ flow[w].pc = "fetching"
    /\ \E out \in FetchOutputs :
        CityDone(w, UpdatedBusinesses(out, country, state, flow[w].city))
    /\ UNCHANGED <<callVars, targets, cfg, proc, exitBy, isShuttingDown, mainVars, progressFile,
                   stateVars, shuffledCities, cityIndex, fileVars,
                   searchCalls, failedLeaves, startFile, listingFailed>>

WorkerFetchThrow(w) ==
    /\ proc = "running"
    /\ pc = "cities"
    /\ flow[w].pc = "fetching"
    /\ IF LastAttempt(w)
       THEN /\ CityDone(w, <<>>)
            /\ failedLeaves' = failedLeaves \cup {Leaf(w)}
       ELSE /\ flow' = NextAttempt(w)
            /\ UNCHANGED <<failedLeaves, cityResults, progressData>>
    /\ UNCHANGED <<callVars, targets, cfg, proc, exitBy, isShuttingDown, mainVars, progressFile,
                   stateVars, shuffledCities, cityIndex, fileVars,
                   searchCalls, startFile, listingFailed>>

\* saveCityResults (594-605) has written the city's file; the delay follows.
SaveCityFile(w) ==
    /\ proc = "running"
    /\ pc = "cities"
    /\ flow[w].pc = "save_city"
    /\ cityFiles' = [cityFiles EXCEPT ![CityKey(country, state, flow[w].city)] = File(flow[w].businesses)]
    /\ flow' = [flow EXCEPT ![w].pc = "delay"]
    /\ UNCHANGED <<callVars, targets, cfg, proc, exitBy, isShuttingDown, mainVars, progressData,
                   progressFile, stateVars, cityVars, stateFiles, cumulative, exportFile,
                   histVars>>

\* The delay of line 830 is over: the while loop goes round.
WorkerNext(w) ==
    /\ proc = "running"
    /\ pc = "cities"
    /\ flow[w].pc = "delay"
    /\ LET st == processBatch([cityIndex |-> cityIndex, flow |-> flow, searchCalls |-> searchCalls],
                              w, shuffledCities, progressData.cities)
       IN  /\ cityIndex' = st.cityIndex
           /\ flow' = st.flow
           /\ searchCalls' = st.searchCalls
    /\ UNCHANGED <<callVars, targets, cfg, proc, exitBy, isShuttingDown, mainVars, progressData,
                   progressFile, stateVars, shuffledCities, cityResults, fileVars,
                   failedLeaves, startFile, listingFailed>>

\* Mutant: the workers are raced, the first to return ends the wait.
CitiesJoin_Race ==
    /\ proc = "running"
    /\ pc = "cities"
    /\ \E w \in Workers : flow[w].pc = "done"
    /\ StateBoundary(cityResults)
    /\ UNCHANGED <<callVars, targets, cfg, proc, exitBy, isShuttingDown, progressFile,
                   shuffledStates, si, cityVars, flow, fileVars, histVars>>

\* Mutant: the wait ends only when every worker has brought a record.
CitiesJoin_AwaitRecords ==
    /\ proc = "running"
    /\ pc = "cities"
    /\ \A w \in Workers : flow[w].pc = "done"
    /\ cityResults # <<>>
    /\ StateBoundary(cityResults)
    /\ flow' = [f \in Flows |-> IdleFlow]
    /\ UNCHANGED <<callVars, targets, cfg, proc, exitBy, isShuttingDown, progressFile,
                   shuffledStates, si, cityVars, fileVars, histVars>>

\* Promise.all (838) resolves when every worker has returned; processStates
\* gets the cities' results (863) and runs the state's boundary code.
CitiesJoin ==
    /\ proc = "running"
    /\ pc = "cities"
    /\ \A w \in Workers : flow[w].pc = "done"
    /\ StateBoundary(cityResults)
    /\ flow' = [f \in Flows |-> IdleFlow]
    /\ UNCHANGED <<callVars, targets, cfg, proc, exitBy, isShuttingDown, progressFile,
                   shuffledStates, si, cityVars, fileVars, histVars>>

\* ------------------------------------------------ SIGINT handler (565-577)
\* saveCurrentProgress (907-922): the export of allBusinesses grouped by
\* country; nothing of progressData is written.
saveCurrentProgress ==
    IF allBusinesses # <<>>
    THEN [c \in Countries |->
            LET unique == removeDuplicates(allBusinesses)
                mine == SelectSeq(unique, LAMBDA b : b.source_country = c)
            IN  IF mine # <<>> THEN File(mine) ELSE exportFile[c]]
    ELSE exportFile

\* Mutant: the handler sets the flag and saves, and does not exit.
Sigint_NoExit ==
    /\ proc = "running"
    /\ ~isShuttingDown
    /\ isShuttingDown' = TRUE
    /\ exportFile' = saveCurrentProgress
    /\ UNCHANGED <<callVars, targets, cfg, proc, exitBy, mainVars, progressData, progressFile,
                   stateVars, cityVars, flow, cityFiles, stateFiles, cumulative, histVars>>

\* The handler: the flag is set, saveCurrentProgress is awaited and
\* process.exit(0) ends the process with every other flow where it stood.
\* allBusinesses is empty in every reachable state (processCountry returns a
\* non-empty list only past line 896), so saveCurrentProgress awaits no I/O
\* and the handler runs to process.exit without another flow in between.
\* A saveProgress under way (971) is cut short by the exit: fs.writeJson
\* writes into progress.json itself (686), opening it with truncation, so the
\* exit leaves the old text, the whole new text or a part of it.
Sigint ==
    /\ proc = "running"
    /\ ~isShuttingDown
    /\ isShuttingDown' = TRUE
    /\ exportFile' = saveCurrentProgress
    /\ proc' = "exited"
    /\ exitBy' = "sigint"
    /\ IF pc = "save_progress"
       THEN progressFile' \in {progressFile,
                               [progressFile EXCEPT ![country] = File(progressData)],
                               [progressFile EXCEPT ![country] = Torn(progressData)]}
       ELSE UNCHANGED progressFile
    /\ UNCHANGED <<callVars, targets, cfg, mainVars, progressData, stateVars,
                   cityVars, flow, cityFiles, stateFiles, cumulative, histVars>>

Next ==
    \/ MainLoop
    \/ Exit
    \/ LoadProgress
    \/ ListStates
    \/ ListStatesFail
    \/ StateFetchOk
    \/ StateFetchThrow
    \/ SaveStateFile
    \/ UpdateCumulative
    \/ ExportCountry
    \/ SaveProgress
    \/ ListCities
    \/ ListCitiesFail
    \/ \E w \in Workers : WorkerFetchOk(w)
    \/ \E w \in Workers : WorkerFetchThrow(w)
    \/ \E w \in Workers : SaveCityFile(w)
    \/ \E w \in Workers : WorkerNext(w)
    \/ CitiesJoin
    \/ Sigint

Spec == Init /\ [][Next]_vars

\* The runs in which reading progress.json can also fail, for a passing
\* cause or because an earlier exit left the file torn.  What becomes of the
\* file does not depend on how many workers share a state's cities, so these
\* runs are taken with one worker.
InitReload ==
    \E withCities \in BOOLEAN, retryCount \in 0..MaxRetry :
    \E t \in {File(tr) : tr \in StartTrees("MK", withCities)}
              \cup {Torn(tr) : tr \in StartTrees("MK", withCities)} \cup {NoFile} :
        /\ InitWith(<<"MK">>, withCities, 1, retryCount,
                    [c \in Countries |-> IF c = "MK" THEN t ELSE NoFile])
        /\ call = NoCall
        /\ ret = NoReturn
\* The runs in which what the cities of a state wait for does come: every
\* searchMapsWithRetry call settles (a fetch returns or throws, 809-815), the
\* write of a city's file (826) and the timer of line 830 complete, and the
\* continuation of Promise.all (838) runs once every worker has returned.
\* A worker waits for one of these at a time.
WorkerStep(w) == WorkerFetchOk(w) \/ WorkerFetchThrow(w) \/ SaveCityFile(w) \/ WorkerNext(w)
CityFairness ==
    /\ \A w \in 1..MaxParallel : WF_vars(WorkerStep(w))
    /\ WF_vars(CitiesJoin)
\* A progress.json that leaves the country at most one leaf to fetch.
NearlyDone(c, withCities) ==
    {tr \in StartTrees(c, withCities) :
        /\ Cardinality(StateKeys(c) \ tr.states) <= 1
        /\ withCities => Cardinality(CityKeys(c) \ tr.cities) <= 1}

\* The runs in city mode that no interrupt ends, with every parallel limit
\* and the largest retry count; the country is begun, or resumed from a
\* progress.json in which at most one city of its last state is missing.
InitLive ==
    \E parallel \in 1..MaxParallel :
    \E t \in {File(tr) : tr \in NearlyDone("MK", TRUE)} \cup {NoFile} :
        /\ InitWith(<<"MK">>, TRUE, parallel, MaxRetry,
                    [c \in Countries |-> IF c = "MK" THEN t ELSE NoFile])
        /\ call = NoCall
        /\ ret = NoReturn
NextLive ==
    \/ MainLoop
    \/ Exit
    \/ LoadProgress
    \/ ListStates
    \/ ListStatesFail
    \/ SaveStateFile
    \/ UpdateCumulative
    \/ ExportCountry
    \/ SaveProgress
    \/ ListCities
    \/ ListCitiesFail
    \/ \E w \in Workers : WorkerFetchOk(w)
    \/ \E w \in Workers : WorkerFetchThrow(w)
    \/ \E w \in Workers : SaveCityFile(w)
    \/ \E w \in Workers : WorkerNext(w)
    \/ CitiesJoin
SpecLive == InitLive /\ [][NextLive]_vars /\ CityFairness

\* The runs over two target countries, in the order of main's loop
\* (1022-1034): the first resumed from a progress.json that leaves it at most
\* one leaf to fetch, the second begun with no progress.json.
InitCountries ==
    \E withCities \in BOOLEAN, parallel \in 1..MaxParallel :
    \E t \in {File(tr) : tr \in NearlyDone("IT", withCities)} :
        /\ InitWith(<<"IT", "MK">>, withCities, parallel, 0,
                    [c \in Countries |-> IF c = "IT" THEN t ELSE NoFile])
        /\ call = NoCall
        /\ ret = NoReturn
SpecCountries == InitCountries /\ [][Next]_vars

\* ------------------------------------------------------ writes that fail
\* Mutant: a state whose file could not be written loses its mark.
SaveStateFileFail_Unmark ==
    /\ proc = "running"
    /\ pc = "save_state"
    /\ progressData' = [progressData EXCEPT !.states = @ \ {StateKey(country, state)}]
    /\ ReturnToMain(<<>>)
    /\ UNCHANGED <<callVars, targets, cfg, proc, exitBy, isShuttingDown, progressFile,
                   stateVars, cityVars, flow, fileVars, histVars>>

\* saveStateResults' catch (619-621): ensureDir or writeJson has thrown, the
\* error is logged and updateCumulativeResults (617) is not reached; back in
\* processStates line 896 throws and processCountry's catch returns [].
SaveStateFileFail ==
    /\ proc = "running"
    /\ pc = "save_state"
    /\ ReturnToMain(<<>>)
    /\ UNCHANGED <<callVars, targets, cfg, proc, exitBy, isShuttingDown, progressData, progressFile,
                   stateVars, cityVars, flow, fileVars, histVars>>

\* updateCumulativeResults' catch (638-640): the read or the write of
\* cumulative.json has thrown; then line 896 as above.
UpdateCumulativeFail ==
    /\ proc = "running"
    /\ pc = "cumulative"
    /\ ReturnToMain(<<>>)
    /\ UNCHANGED <<callVars, targets, cfg, proc, exitBy, isShuttingDown, progressData, progressFile,
                   stateVars, cityVars, flow, fileVars, histVars>>

\* exportResults' catch (737-739): the write of the export has thrown and is
\* logged; processCountry marks the country (969) all the same.
ExportCountryFail ==
    /\ proc = "running"
    /\ pc = "export_country"
    /\ progressData' = [progressData EXCEPT !.countries = @ \cup {country}]
    /\ pc' = "save_progress"
    /\ UNCHANGED <<callVars, targets, cfg, proc, exitBy, isShuttingDown, allBusinesses,
                   successfulCountries, failedCountries, ci, progressFile,
                   stateVars, cityVars, flow, fileVars, histVars>>

\* The ensureDir of line 719 stands before exportResults' try: its error
\* reaches processCountry's catch (977), which returns [] with the country
\* unmarked.
ExportCountryDirFail ==
    /\ proc = "running"
    /\ pc = "export_country"
    /\ ReturnToMain(<<>>)
    /\ UNCHANGED <<callVars, targets, cfg, proc, exitBy, isShuttingDown, progressData, progressFile,
                   stateVars, cityVars, flow, fileVars, histVars>>

\* saveProgress' catch (687-689): progress.json is not written, the error is
\* logged and processCountry returns the deduplicated results (975).
SaveProgressFail ==
    /\ proc = "running"
    /\ pc = "save_progress"
    /\ ReturnToMain(removeDuplicates(results))
    /\ UNCHANGED <<callVars, targets, cfg, proc, exitBy, isShuttingDown, progressData, progressFile,
                   stateVars, cityVars, flow, fileVars, histVars>>

\* saveCityResults' catch (602-604): the city's file is not written, the
\* error is logged and the worker goes on to its delay (830).
SaveCityFileFail(w) ==
    /\ proc = "running"
    /\ pc = "cities"
    /\ flow[w].pc = "save_city"
    /\ flow' = [flow EXCEPT ![w].pc = "delay"]
    /\ UNCHANGED <<callVars, targets, cfg, proc, exitBy, isShuttingDown, mainVars, progressData,
                   progressFile, stateVars, cityVars, fileVars, histVars>>

NextReload ==
    \/ Next
    \/ LoadProgressFail
    \/ SaveStateFileFail
    \/ UpdateCumulativeFail
    \/ ExportCountryFail
    \/ ExportCountryDirFail
    \/ SaveProgressFail
    \/ \E w \in Workers : SaveCityFileFail(w)
SpecReload == InitReload /\ [][NextReload]_vars

\* ================================================ the functions taken alone
\* removeDuplicates, searchMapsWithRetry and withRetry applied to arguments
\* of every shape: a call is drawn at the start, the action of its function
\* computes what the code returns.
Lists(S, n) == UNION {[1..k -> S] : k \in 0..n}
Returned(r) == <<r>>
Result == ret[1]

\* The listings extractBusinessData builds (253-267), as far as the key of
\* removeDuplicates could tell them apart; a missing address or phone is ''.
DedupRecords == [name : {"n1", "n2"}, formatted_address : {"a1", "a2"}, phone_number : {"", "p1"}]

\* What one call of the wrapped operation does: it throws, or returns a list.
Threw == [threw |-> TRUE, value |-> <<>>]
Gave(v) == [threw |-> FALSE, value |-> v]
Outcomes == {Threw} \cup {Gave(v) : v \in FetchOutputs}

\* The state of a retry loop: how it ended (or "running"), what it returned,
\* the error it threw (the number of the attempt that raised it), the calls
\* of the operation, the lines logged and the waits made.
LoopStart == [kind |-> "running", value |-> <<>>, error |-> 0, attempts |-> 0, log |-> <<>>, waits |-> 0]
LogLine(text, attempt) == [line |-> text, attempt |-> attempt]

\* Mutant: the loop condition is attempt < retries.
RECURSIVE searchMapsWithRetryFrom_OneFewer(_, _, _, _)
searchMapsWithRetryFrom_OneFewer(script, retries, attempt, st) ==
    IF attempt >= retries THEN [st EXCEPT !.kind = "undefined"]
    ELSE LET o == script[attempt + 1]
             called == [st EXCEPT !.attempts = @ + 1]
         IN  IF ~o.threw
             THEN [called EXCEPT !.kind = "returned",
                                 !.value = UpdatedBusinesses(o.value, "MK", "S1", 1)]
             ELSE searchMapsWithRetryFrom_OneFewer(script, retries, attempt + 1,
                      [called EXCEPT !.log = @ \o <<LogLine("attempt_failed", attempt + 1)>>,
                                     !.waits = @ + 1])

\* searchMapsWithRetry (744-777) from iteration `attempt` of its for loop
\* (attempt = 0; attempt <= retries), the operation's calls behaving as the
\* script says: a call that returns ends the loop with the tagged list
\* (753-764); a call that throws is logged (769), and after the last one
\* allowed "All retry attempts failed" is logged and [] is returned
\* (770-773), otherwise the loop waits (774) and goes round.
RECURSIVE searchMapsWithRetryFrom(_, _, _, _)
searchMapsWithRetryFrom(script, retries, attempt, st) ==
    IF attempt > retries THEN [st EXCEPT !.kind = "undefined"]
    ELSE LET o == script[attempt + 1]
             called == [st EXCEPT !.attempts = @ + 1]
             logged == [called EXCEPT !.log = @ \o <<LogLine("attempt_failed", attempt + 1)>>]
         IN  IF ~o.threw
             THEN [called EXCEPT !.kind = "returned",
                                 !.value = UpdatedBusinesses(o.value, "MK", "S1", 1)]
             ELSE IF attempt = retries
             THEN [logged EXCEPT !.kind = "returned", !.value = <<>>,
                                 !.log = @ \o <<LogLine("all_failed", attempt + 1)>>]
             ELSE searchMapsWithRetryFrom(script, retries, attempt + 1,
                                          [logged EXCEPT !.waits = @ + 1])
searchMapsWithRetry(script, retries) == searchMapsWithRetryFrom(script, retries, 0, LoopStart)

\* withRetry (98-115) from iteration `attempt` of its loop (attempt = 1;
\* attempt <= maxRetries): a call that returns ends the loop with its value;
\* a call that throws on the last iteration rethrows its error (106-108),
\* on an earlier one the retry is logged and the loop waits delay * attempt.
DefaultMaxRetries == 3
RECURSIVE withRetryFrom(_, _, _, _)
withRetryFrom(script, maxRetries, attempt, st) ==
    IF attempt > maxRetries THEN [st EXCEPT !.kind = "undefined"]
    ELSE LET o == script[attempt]
             called == [st EXCEPT !.attempts = @ + 1]
         IN  IF ~o.threw
             THEN [called EXCEPT !.kind = "returned", !.value = o.value]
             ELSE IF attempt = maxRetries
             THEN [called EXCEPT !.kind = "threw", !.error = attempt]
             ELSE withRetryFrom(script, maxRetries, attempt + 1,
                                [called EXCEPT !.log = @ \o <<LogLine("retry", attempt)>>,
                                               !.waits = @ + attempt])
withRetry(script, maxRetries) == withRetryFrom(script, maxRetries, 1, LoopStart)

\* ------------------------------------------------- exportResults (717-741)
\* The formats the switch of line 725 knows, and the records exported, as far
\* as an export could tell them apart.
ExportFormats == {"json", "csv", "xlsx"}
ExportRecords == {"r1", "r2"}

\* What a writer puts into the file it opens: the records, in the format's
\* encoding.
Written(format, data) == [format |-> format, records |-> data]

\* exportJSON (693-695), exportCSV (697-707) and exportXLSX (709-714) on the
\* file `old` of their path: writeJson, writeRecords and XLSX.writeFile put a
\* new file in its place; exportCSV returns at line 698, before it opens
\* anything, when there is no record.
exportJSON(data, old) == File(Written("json", data))
exportCSV(data, old) == IF Len(data) = 0 THEN old ELSE File(Written("csv", data))
exportXLSX(data, old) == File(Written("xlsx", data))
ExportOne(format, data, old) ==
    CASE format = "json" -> exportJSON(data, old)
      [] format = "csv" -> exportCSV(data, old)
      [] format = "xlsx" -> exportXLSX(data, old)

\* An export under way: the files of the results directory, the formats
\* whose writer was called, and the lines logged.
ExportStart(prior) == [kind |-> "running", files |-> prior, attempted |-> <<>>, log |-> <<>>]

\* Mutant: the try/catch stands around the loop, not inside it.
RECURSIVE exportResultsFrom_StopAtFailure(_, _, _, _, _)
exportResultsFrom_StopAtFailure(businesses, formats, i, failing, st) ==
    IF i > Len(formats) THEN [st EXCEPT !.kind = "returned"]
    ELSE LET format == formats[i]
             called == [st EXCEPT !.attempted = @ \o <<format>>]
         IN  IF format \in failing /\ ~(format = "csv" /\ Len(businesses) = 0)
             THEN [called EXCEPT !.kind = "returned", !.log = @ \o <<LogLine("failed", i)>>]
             ELSE exportResultsFrom_StopAtFailure(businesses, formats, i + 1, failing,
                      [called EXCEPT !.files[format] = ExportOne(format, businesses, @),
                                     !.log = @ \o <<LogLine("exported", i)>>])

\* The for loop of exportResults (721-740) from its i-th format: the writer
\* of the format is called inside a try (724-735); when it returns
\* "Exported" is logged (736), when it throws the catch logs "Failed to
\* export" (737-739), and the loop goes round either way.  A writer that
\* throws is taken to leave its file as it was.
RECURSIVE exportResultsFrom(_, _, _, _, _)
exportResultsFrom(businesses, formats, i, failing, st) ==
    IF i > Len(formats) THEN [st EXCEPT !.kind = "returned"]
    ELSE LET format == formats[i]
             called == [st EXCEPT !.attempted = @ \o <<format>>]
         IN  IF format \in failing /\ ~(format = "csv" /\ Len(businesses) = 0)
             THEN exportResultsFrom(businesses, formats, i + 1, failing,
                      [called EXCEPT !.log = @ \o <<LogLine("failed", i)>>])
             ELSE exportResultsFrom(businesses, formats, i + 1, failing,
                      [called EXCEPT !.files[format] = ExportOne(format, businesses, @),
                                     !.log = @ \o <<LogLine("exported", i)>>])
exportResults(businesses, formats, failing, prior) ==
    exportResultsFrom(businesses, formats, 1, failing, ExportStart(prior))

\* ----------------------------------------------- searchGoogleMaps (283-402)
\* What the browser does in one call: whether the launch (292-295), the
\* opening of the page (296), the work on the page (299-340), the closing of
\* the page (391) and the closing of the browser (394) throw, and the
\* listings the page gives.
BrowserOutcomes ==
    [launch : BOOLEAN, newPage : BOOLEAN, work : BOOLEAN, pageClose : BOOLEAN,
     browserClose : BOOLEAN, found : FetchOutputs]

\* The finally block (387-400) on the call's state: the page is closed if
\* there is one, then the browser if there is one, both inside one try whose
\* catch (397-399) only warns; a close that throws leaves its object open.
Cleanup(o, st) ==
    LET afterPage == IF st.page /\ ~o.pageClose THEN [st EXCEPT !.pageOpen = FALSE] ELSE st
    IN  IF st.page /\ o.pageClose
        THEN [st EXCEPT !.log = @ \o <<LogLine("cleanup_warning", 1)>>]
        ELSE IF ~st.browser THEN afterPage
        ELSE IF o.browserClose
        THEN [afterPage EXCEPT !.log = @ \o <<LogLine("cleanup_warning", 1)>>]
        ELSE [afterPage EXCEPT !.browserOpen = FALSE,
                               !.log = @ \o <<LogLine("browser_closed", 1)>>]

\* searchGoogleMaps: the try (288-370) runs until one of its awaits throws,
\* the catch (372-385) logs and gives [], and the finally block runs before
\* the value is returned.  `browser` and `page` say whether the variables of
\* that name are set.
searchGoogleMaps(o) ==
    LET start == [kind |-> "returned", value |-> <<>>, browser |-> FALSE, page |-> FALSE,
                  browserOpen |-> FALSE, pageOpen |-> FALSE, log |-> <<>>]
        failed(st) == [st EXCEPT !.log = @ \o <<LogLine("search_failed", 1)>>]
        launched == [start EXCEPT !.browser = TRUE, !.browserOpen = TRUE]
        opened == [launched EXCEPT !.page = TRUE, !.pageOpen = TRUE]
    IN  IF o.launch THEN Cleanup(o, failed(start))
        ELSE IF o.newPage THEN Cleanup(o, failed(launched))
        ELSE IF o.work THEN Cleanup(o, failed(opened))
        ELSE Cleanup(o, [opened EXCEPT !.value = o.found])

\* -------- saveStateResults (608-622) and updateCumulativeResults (626-641)
\* The listings of the states of one country that share a name or an address.
CumulativeRecords ==
    {[name |-> "n1", formatted_address |-> "a1", phone_number |-> "p1"],
     [name |-> "n1", formatted_address |-> "a2", phone_number |-> "p1"],
     [name |-> "n2", formatted_address |-> "a1", phone_number |-> "p1"]}

\* updateCumulativeResults with its reads and writes succeeding: the file's
\* list, [] when there is no file (630-633), then the new records; the
\* whole deduplicated (635) and written back (636).
updateCumulativeResults(file, newBusinesses) ==
    LET existing == IF file = NoFile THEN <<>> ELSE Content(file)
    IN  File(removeDuplicates(existing \o newBusinesses))

\* The saves of the states' results one after the other, from the i-th on:
\* each saveStateResults writes its state's file (613) and awaits
\* updateCumulativeResults (617).  st holds cumulative.json and what it held
\* after each save.
RECURSIVE saveStateResultsFrom(_, _, _)
saveStateResultsFrom(saves, i, st) ==
    IF i > Len(saves) THEN [st EXCEPT !.kind = "returned"]
    ELSE LET file == updateCumulativeResults(st.file, saves[i])
         IN  saveStateResultsFrom(saves, i + 1,
                 [st EXCEPT !.file = file, !.after = @ \o <<Content(file)>>])
saveStateResultsAll(saves) ==
    saveStateResultsFrom(saves, 1, [kind |-> "running", file |-> NoFile, after |-> <<>>])

\* The calls: removeDuplicates on every list of listings, searchMapsWithRetry
\* with every retry count and every script of its retries + 1 possible calls
\* of searchGoogleMaps, withRetry with its default count (the only one its
\* caller, line 292, uses) and every script.
DedupCalls ==
    {[fn |-> "removeDuplicates", businesses |-> bs, retries |-> 0, script |-> <<>>] :
        bs \in Lists(DedupRecords, MaxList)}
RetryCalls ==
    UNION {{[fn |-> "searchMapsWithRetry", businesses |-> <<>>, retries |-> r, script |-> sc] :
                sc \in [1..r + 1 -> Outcomes]} : r \in 0..MaxRetryAlone}
WithRetryCalls ==
    {[fn |-> "withRetry", businesses |-> <<>>, retries |-> DefaultMaxRetries, script |-> sc] :
        sc \in [1..DefaultMaxRetries -> Outcomes]}

\* exportResults on every list of records, with every list of formats
\* CONFIG.exportFormats can hold (508, 522), every set of formats whose write
\* throws and every set of files an earlier export left in the directory.
ExportCalls ==
    {[fn |-> "exportResults", businesses |-> bs, retries |-> 0, script |-> fs,
      failing |-> bad, prior |-> old] :
        bs \in Lists(ExportRecords, MaxList), fs \in Lists(ExportFormats, MaxFormats),
        bad \in SUBSET ExportFormats, old \in [ExportFormats -> {NoFile, File(Written("old", <<"r0">>))}]}

\* Two states of a country saved one after the other, with every pair of
\* result lists; a state with no record is not saved (890).
SaveCalls ==
    {[fn |-> "saveStateResults", businesses |-> <<>>, retries |-> 0, script |-> <<first, second>>] :
        first \in Lists(CumulativeRecords, MaxList) \ {<<>>},
        second \in Lists(CumulativeRecords, MaxList) \ {<<>>}}

\* searchGoogleMaps with the browser behaving in every way.
BrowserCalls ==
    {[fn |-> "searchGoogleMaps", businesses |-> <<>>, retries |-> 0, script |-> <<>>,
      outcome |-> o] : o \in BrowserOutcomes}

InitCalls ==
    /\ InitWith(<<"MK">>, FALSE, 1, 0, [c \in Countries |-> NoFile])
    /\ call \in DedupCalls \cup RetryCalls \cup WithRetryCalls \cup ExportCalls \cup SaveCalls
                \cup BrowserCalls
    /\ ret = NoReturn

CallRemoveDuplicates ==
    /\ call.fn = "removeDuplicates"
    /\ ret = NoReturn
    /\ ret' = Returned([LoopStart EXCEPT !.kind = "returned", !.value = removeDuplicates(call.businesses)])
    /\ UNCHANGED <<call, targets, cfg, proc, exitBy, isShuttingDown, mainVars, progressData,
                   progressFile, stateVars, cityVars, flow, fileVars, histVars>>

CallSearchMapsWithRetry ==
    /\ call.fn = "searchMapsWithRetry"
    /\ ret = NoReturn
    /\ ret' = Returned(searchMapsWithRetry(call.script, call.retries))
    /\ UNCHANGED <<call, targets, cfg, proc, exitBy, isShuttingDown, mainVars, progressData,
                   progressFile, stateVars, cityVars, flow, fileVars, histVars>>

CallWithRetry ==
    /\ call.fn = "withRetry"
    /\ ret = NoReturn
    /\ ret' = Returned(withRetry(call.script, call.retries))
    /\ UNCHANGED <<call, targets, cfg, proc, exitBy, isShuttingDown, mainVars, progressData,
                   progressFile, stateVars, cityVars, flow, fileVars, histVars>>

CallExportResults ==
    /\ call.fn = "exportResults"
    /\ ret = NoReturn
    /\ ret' = Returned(exportResults(call.businesses, call.script, call.failing, call.prior))
    /\ UNCHANGED <<call, targets, cfg, proc, exitBy, isShuttingDown, mainVars, progressData,
                   progressFile, stateVars, cityVars, flow, fileVars, histVars>>

CallSaveStateResults ==
    /\ call.fn = "saveStateResults"
    /\ ret = NoReturn
    /\ ret' = Returned(saveStateResultsAll(call.script))
    /\ UNCHANGED <<call, targets, cfg, proc, exitBy, isShuttingDown, mainVars, progressData,
                   progressFile, stateVars, cityVars, flow, fileVars, histVars>>

CallSearchGoogleMaps ==
    /\ call.fn = "searchGoogleMaps"
    /\ ret = NoReturn
    /\ ret' = Returned(searchGoogleMaps(call.outcome))
    /\ UNCHANGED <<call, targets, cfg, proc, exitBy, isShuttingDown, mainVars, progressData,
                   progressFile, stateVars, cityVars, flow, fileVars, histVars>>

NextCalls ==
    \/ CallSearchGoogleMaps
    \/ CallSaveStateResults
    \/ CallRemoveDuplicates
    \/ CallSearchMapsWithRetry
    \/ CallWithRetry
    \/ CallExportResults
SpecCalls == InitCalls /\ [][NextCalls]_vars

\* ----------------------------------------- searchGoogleMapsBatch (405-459)
\* The queries are told apart by their text; a search is known by the place
\* of its query in the list.
QueryNames == <<"q1", "q2", "q3", "q4", "q5", "q6">>
Queries(n) == SubSeq(QueryNames, 1, n)
Min(a, b) == IF a < b THEN a ELSE b

\* Lines 416-418: the places of the queries cut into chunks of maxConcurrent,
\* from place i on (queries.slice(i, i + maxConcurrent)).
RECURSIVE Chunks(_, _, _)
Chunks(n, maxConcurrent, i) ==
    IF i > n THEN <<>>
    ELSE <<[k \in 1..(Min(i + maxConcurrent - 1, n) - i + 1) |-> i + k - 1]>>
         \o Chunks(n, maxConcurrent, i + maxConcurrent)

\* The places of a chunk's queries.
Places(chunk) == {chunk[k] : k \in DOMAIN chunk}

\* How one searchGoogleMaps promise settles: fulfilled with its listings, or
\* rejected.
Pending == [status |-> "pending", value |-> <<>>]
Settlements ==
    {[status |-> "fulfilled", value |-> v] : v \in FetchOutputs}
        \cup {[status |-> "rejected", value |-> <<>>]}

\* Lines 427-442: the entry pushed for the query at place p of the list.
Entry(queries, p, settlement) ==
    IF settlement.status = "fulfilled"
    THEN [query |-> queries[p], businesses |-> settlement.value, success |-> TRUE]
    ELSE [query |-> queries[p], businesses |-> <<>>, success |-> FALSE, error |-> "reason"]

\* The for loop at the head of chunk i (420-425): past the last chunk the
\* results are returned (458); otherwise chunk.map starts one search per
\* query of the chunk, each running to its first await, and allSettled is
\* awaited.
StartChunk(st, i) ==
    IF i > Len(st.chunks) THEN [st EXCEPT !.kind = "returned", !.i = i]
    ELSE [st EXCEPT !.i = i, !.phase = "searching",
                    !.inFlight = @ \cup Places(st.chunks[i])]
BatchStart(n, maxConcurrent) ==
    [kind |-> "running", chunks |-> Chunks(n, maxConcurrent, 1), i |-> 1, phase |-> "searching",
     inFlight |-> {}, settled |-> [p \in 1..n |-> Pending], results |-> <<>>]

\* The calls: every list of up to MaxQueries queries with every
\* maxConcurrent from 1 to MaxConcurrent.
BatchCalls ==
    {[fn |-> "searchGoogleMapsBatch", businesses |-> <<>>, retries |-> 0, script |-> Queries(n),
      maxConcurrent |-> k] : n \in 0..MaxQueries, k \in 1..MaxConcurrent}
InitBatch ==
    /\ InitWith(<<"MK">>, FALSE, 1, 0, [c \in Countries |-> NoFile])
    /\ call \in BatchCalls
    /\ ret = NoReturn

\* The call runs to its first await, or to its return with no query.
CallSearchGoogleMapsBatch ==
    /\ call.fn = "searchGoogleMapsBatch"
    /\ ret = NoReturn
    /\ ret' = Returned(StartChunk(BatchStart(Len(call.script), call.maxConcurrent), 1))
    /\ UNCHANGED <<call, targets, cfg, proc, exitBy, isShuttingDown, mainVars, progressData,
                   progressFile, stateVars, cityVars, flow, fileVars, histVars>>

\* One of the searches in flight settles.
BatchSearchSettles ==
    /\ call.fn = "searchGoogleMapsBatch"
    /\ ret # NoReturn
    /\ \E p \in Result.inFlight, o \in Settlements :
          ret' = Returned([Result EXCEPT !.inFlight = @ \ {p}, !.settled[p] = o])
    /\ UNCHANGED <<call, targets, cfg, proc, exitBy, isShuttingDown, mainVars, progressData,
                   progressFile, stateVars, cityVars, flow, fileVars, histVars>>

\* Mutant: the chunk is awaited with Promise.race, the first search to
\* settle ends the wait.
BatchChunkSettled_Race ==
    /\ call.fn = "searchGoogleMapsBatch"
    /\ ret # NoReturn
    /\ Result.kind = "running" /\ Result.phase = "searching"
    /\ \E p \in Places(Result.chunks[Result.i]) : p \notin Result.inFlight
    /\ LET chunk == Result.chunks[Result.i]
           pushed == [Result EXCEPT !.results =
                         @ \o [k \in 1..Len(chunk) |-> Entry(call.script, chunk[k], Result.settled[chunk[k]])]]
       IN  ret' = Returned(IF Result.i < Len(Result.chunks)
                           THEN [pushed EXCEPT !.phase = "delay"]
                           ELSE [pushed EXCEPT !.kind = "returned"])
    /\ UNCHANGED <<call, targets, cfg, proc, exitBy, isShuttingDown, mainVars, progressData,
                   progressFile, stateVars, cityVars, flow, fileVars, histVars>>

\* Promise.allSettled resolves (425) once every search of the chunk has
\* settled: one entry per query of the chunk is pushed in the chunk's order
\* (427-443), and the delay is awaited unless the chunk was the last (448),
\* after which the loop ends and the results are returned.
BatchChunkSettled ==
    /\ call.fn = "searchGoogleMapsBatch"
    /\ ret # NoReturn
    /\ Result.kind = "running" /\ Result.phase = "searching"
    /\ Result.inFlight = {}
    /\ LET chunk == Result.chunks[Result.i]
           pushed == [Result EXCEPT !.results =
                         @ \o [k \in 1..Len(chunk) |-> Entry(call.script, chunk[k], Result.settled[chunk[k]])]]
       IN  ret' = Returned(IF Result.i < Len(Result.chunks)
                           THEN [pushed EXCEPT !.phase = "delay"]
                           ELSE [pushed EXCEPT !.kind = "returned"])
    /\ UNCHANGED <<call, targets, cfg, proc, exitBy, isShuttingDown, mainVars, progressData,
                   progressFile, stateVars, cityVars, flow, fileVars, histVars>>

\* The timer of line 449 fires: the next chunk is started.
BatchDelayOver ==
    /\ call.fn = "searchGoogleMapsBatch"
    /\ ret # NoReturn
    /\ Result.kind = "running" /\ Result.phase = "delay"
    /\ ret' = Returned(StartChunk(Result, Result.i + 1))
    /\ UNCHANGED <<call, targets, cfg, proc, exitBy, isShuttingDown, mainVars, progressData,
                   progressFile, stateVars, cityVars, flow, fileVars, histVars>>

NextBatch ==
    \/ CallSearchGoogleMapsBatch
    \/ BatchSearchSettles
    \/ BatchChunkSettled
    \/ BatchDelayOver
SpecBatch == InitBatch /\ [][NextBatch]_vars

TypeOK ==
    /\ proc \in {"running", "exited"}
    /\ exitBy \in {"none", "sigint", "end"}
    /\ isShuttingDown \in BOOLEAN
    /\ ci \in 1..Len(targets) + 1
    /\ \A f \in Flows : flow[f].pc \in {"idle", "fetching", "save_city", "delay", "done"}

\* ================================================================= claims
Range(q) == {q[i] : i \in DOMAIN q}
InCountry == pc \notin {"main", "summary"}
Interrupted == proc = "exited" /\ exitBy = "sigint"
\* The tree a load of progress.json gives, now and at the start of the run.
TreeOf(f) == IF f = NoFile \/ IsTorn(f) THEN EmptyTree ELSE Content(f)
DiskTree(c) == TreeOf(progressFile[c])
StartTree(c) == TreeOf(startFile[c])
TargetSet == {targets[i] : i \in DOMAIN targets}

\* The leaves of the run, and whether a tree marks a leaf complete.
RunLeaves ==
    {l \in Leaves : l[1] \in TargetSet /\ (l[3] = NoCity <=> ~cfg.includeCities)}
MarkedIn(t, l) ==
    IF l[3] = NoCity THEN StateKey(l[1], l[2]) \in t.states
    ELSE CityKey(l[1], l[2], l[3]) \in t.cities
InFlight == {f \in Flows : flow[f].pc = "fetching"}

\* What the states loop and the workers have accumulated for the country.
Accumulated == IF pc = "cities" THEN results \o cityResults ELSE results
FileRecords(f) == IF f = NoFile THEN {} ELSE Range(Content(f))
DiskRecords(c) ==
    UNION ({FileRecords(cityFiles[k]) : k \in CityKeys(c)}
           \cup {FileRecords(stateFiles[k]) : k \in StateKeys(c)}
           \cup {FileRecords(cumulative[c]), FileRecords(exportFile[c])})
RecordLeaf(b) == <<b.source_country, b.state, IF b.city = "" THEN NoCity ELSE b.city>>

\* C1: a leaf whose fetch threw on every attempt the retry count allows is
\* marked complete neither in the tree in memory nor in progress.json.
C1_FailedLeafNotMarked ==
    \A l \in failedLeaves : ~MarkedIn(progressData, l) /\ ~MarkedIn(DiskTree(l[1]), l)

\* C2: when the run has ended (without interrupt or listing failure) from a
\* start tree with some leaves marked, no fetch was issued for a marked leaf
\* and one was issued for every leaf that was not marked.
C2_ResumeSkipsAndSchedules ==
    (/\ proc = "exited" /\ exitBy = "end" /\ ~listingFailed
     /\ \E l \in RunLeaves : MarkedIn(StartTree(l[1]), l))
    => \A l \in RunLeaves :
         IF MarkedIn(StartTree(l[1]), l) THEN searchCalls[l] = 0 ELSE searchCalls[l] >= 1

\* C3: never more fetch calls in flight than the parallel limit.
C3_InFlightWithinLimit == Cardinality(InFlight) <= cfg.parallel
C3_Witness == cfg.parallel = MaxParallel /\ Cardinality(InFlight) = MaxParallel

\* C4: a tree, in memory or in progress.json, that marks a country complete
\* marks every state of it and, in city mode, every city of every state.
CompleteCountryIsWhole(t) ==
    \A c \in t.countries :
        /\ StateKeys(c) \subseteq t.states
        /\ cfg.includeCities => CityKeys(c) \subseteq t.cities
C5_InterruptSavesCompletedCities ==
    Interrupted => \A c \in TargetSet :
        (progressData.cities \cap CityKeys(c)) \ StartTree(c).cities \subseteq DiskTree(c).cities

\* C6: after an interrupt that arrived while a country was being processed,
\* the records accumulated for that country are in its export file.
C6_InterruptExportsAccumulated ==
    Interrupted /\ InCountry => Range(Accumulated) \subseteq FileRecords(exportFile[country])

\* C7: at the moment of an interrupt every record fetched by a leaf that the
\* progress tree marks complete is in a file on disk.
C7_MarkedLeafRecordsOnDisk ==
    Interrupted /\ InCountry =>
        \A b \in Range(Accumulated) :
            MarkedIn(progressData, RecordLeaf(b)) => b \in DiskRecords(b.source_country)

\* C8: once the interrupt flag is set no searchMapsWithRetry call is issued.
C8_NoFetchStartsAfterInterrupt == [][isShuttingDown => searchCalls' = searchCalls]_vars
C8_Witness ==
    /\ isShuttingDown
    /\ pc = "cities"
    /\ cityIndex <= Len(shuffledCities)
    /\ \E w \in Workers : flow[w].pc = "delay"

C11_DiskKeysNeverCleared ==
    [][\A c \in Countries :
          /\ DiskTree(c).states \subseteq DiskTree(c)'.states
          /\ DiskTree(c).cities \subseteq DiskTree(c)'.cities]_vars
C11_Witness ==
    /\ pc = "main"
    /\ ci = 2
    /\ StartTree("MK").states # {}
    /\ ~(StartTree("MK").states \subseteq progressData.states)
    /\ StartTree("MK").states \subseteq DiskTree("MK").states

\* C12: within one loaded tree a city key that is true stays true through
\* every later city, state and country mark (the tree is replaced only by
\* the load that starts a country).
C12_CityMarkMonotonic == [][pc # "load" => progressData.cities \subseteq progressData'.cities]_vars
C12_Witness ==
    /\ cfg.includeCities
    /\ \E s \in States :
        /\ StateKey("MK", s) \in progressData.states \ StartTree("MK").states
        /\ CityKeysOf("MK", s) \subseteq progressData.cities
        /\ CityKeysOf("MK", s) \cap StartTree("MK").cities # {}
        /\ ~(CityKeysOf("MK", s) \subseteq StartTree("MK").cities)

\* C13: once a state's boundary code is over and control has left the
\* states loop, progress.json marks every state the tree in memory marks.
C13_StateMarkSavedAtBoundary ==
    pc \in {"main", "summary"} =>
        \A c \in TargetSet : progressData.states \cap StateKeys(c) \subseteq DiskTree(c).states

\* C14: a country that the loaded tree marks complete gets no listing and no
\* fetch: processCountry is never past its load and no searchMapsWithRetry
\* call is counted for any of its leaves.
C14_CompleteCountryShortCircuits ==
    \A c \in TargetSet :
        c \in StartTree(c).countries =>
            /\ \A l \in Leaves : l[1] = c => searchCalls[l] = 0
            /\ ~listingFailed
            /\ InCountry /\ country = c => pc = "load"
C14_Witness ==
    /\ "MK" \in StartTree("MK").countries
    /\ pc = "main"
    /\ ci = 2
    /\ successfulCountries = 1

\* C15: when the run has ended (no interrupt, no listing failure) and some
\* leaf failed on every attempt, every leaf that was not marked at the start
\* has nevertheless been fetched.
C15_FailedTaskDoesNotStopSiblings ==
    (proc = "exited" /\ exitBy = "end" /\ ~listingFailed /\ failedLeaves # {})
    => \A l \in RunLeaves : ~MarkedIn(StartTree(l[1]), l) => searchCalls[l] >= 1

\* The call of function f has returned; the attempts its count allows (the
\* for loop of searchMapsWithRetry runs retries + 1 times, that of withRetry
\* maxRetries times); every allowed attempt threw.
CallDone(f) == call.fn = f /\ ret # NoReturn
Allowed == IF call.fn = "searchMapsWithRetry" THEN call.retries + 1 ELSE call.retries
AllThrew == \A i \in 1..Allowed : call.script[i].threw
FailedLines(n) == [i \in 1..n |-> LogLine("attempt_failed", i)]

\* C16: a retry wrapper whose operation threw on every allowed attempt ends
\* by throwing the error of the last attempt, never by returning a value.
C16_LastErrorSurfaced ==
    \A f \in {"searchMapsWithRetry", "withRetry"} :
        CallDone(f) /\ AllThrew => Result.kind = "threw" /\ Result.error = Allowed

C18_SuccessAfterFailures ==
    CallDone("searchMapsWithRetry") =>
        \A j \in 0..call.retries :
            ((\A i \in 1..j : call.script[i].threw) /\ ~call.script[j + 1].threw)
            => /\ Result.kind = "returned"
               /\ Result.value = UpdatedBusinesses(call.script[j + 1].value, "MK", "S1", 1)
               /\ Result.log = FailedLines(j)
               /\ Result.attempts = j + 1
C18_Witness ==
    /\ CallDone("searchMapsWithRetry")
    /\ call.retries = 2
    /\ call.script[1].threw
    /\ call.script[2].threw
    /\ ~call.script[3].threw
    /\ call.script[3].value # <<>>

\* The identity key the records are to be told apart by, and the first
\* record of each key in the order of the list.
IdentityKey(b) == <<b.name, b.formatted_address, b.phone_number>>
FirstOfEachKey(bs) ==
    LET keep == {i \in 1..Len(bs) : \A j \in 1..(i - 1) : IdentityKey(bs[j]) # IdentityKey(bs[i])}
        RECURSIVE Pick(_)
        Pick(i) == IF i > Len(bs) THEN <<>>
                   ELSE IF i \in keep THEN <<bs[i]>> \o Pick(i + 1) ELSE Pick(i + 1)
    IN  Pick(1)

\* C19: removeDuplicates returns the first record of each identity key
\* (name, formatted address, phone number) in the original order, so that
\* records of one name and different addresses or phones are all kept.
C19_FirstOfEachIdentityKey ==
    CallDone("removeDuplicates") => Result.value = FirstOfEachKey(call.businesses)

\* C20: deduplicating R \o R gives what deduplicating R gives, and
\* deduplicating that result again leaves it as it is.
C20_DedupIdempotent ==
    CallDone("removeDuplicates") =>
        /\ removeDuplicates(call.businesses \o call.businesses) = Result.value
        /\ removeDuplicates(Result.value) = Result.value
C20_Witness ==
    /\ CallDone("removeDuplicates")
    /\ Len(call.businesses) = 2
    /\ Len(Result.value) = 1

\* The country whose processCountry call was the last to return.
Returned1 == pc \in {"main", "summary"} /\ ci > 1
LastCountry == targets[ci - 1]

\* C21: when processCountry has returned without interrupt or listing
\* failure and every state of the country is marked, the country's export
\* file holds exactly the deduplicated records the leaves returned in this run.
C21_CountryExportHoldsRunRecords ==
    (/\ Returned1 /\ ~isShuttingDown /\ ~listingFailed
     /\ LastCountry \notin StartTree(LastCountry).countries
     /\ StateKeys(LastCountry) \subseteq progressData.states)
    => /\ exportFile[LastCountry] # NoFile
       /\ Content(exportFile[LastCountry]) = removeDuplicates(results)

\* C22: when a state's boundary code is over, the file of every state that
\* was marked in this run holds the state's records, be they none.
C22_StateExportAtBoundary ==
    Returned1 /\ ~listingFailed =>
        \A k \in (progressData.states \cap StateKeys(LastCountry)) \ StartTree(LastCountry).states :
            stateFiles[k] # NoFile

\* C30: no city is claimed twice: searchMapsWithRetry is called at most once
\* for a leaf, and two workers never hold the same city.
Holding(w) == flow[w].pc \in {"fetching", "save_city", "delay"}
C30_NoCityClaimedTwice ==
    /\ \A l \in Leaves : searchCalls[l] <= 1
    /\ \A v, w \in Workers : v # w /\ Holding(v) /\ Holding(w) => flow[v].city # flow[w].city
C30_Witness ==
    /\ pc = "cities"
    /\ cityIndex > Len(shuffledCities)
    /\ \E v, w \in Workers : v # w /\ flow[v].pc = "fetching" /\ flow[w].pc = "fetching"
                              /\ flow[v].city # flow[w].city

\* C23: progress.json never holds a part of a tree: whatever ends the
\* process during a save, the file has its old or its new content whole.
C23_ProgressFileNeverTorn ==
    \A c \in Countries : IsTorn(startFile[c]) \/ ~IsTorn(progressFile[c])

\* C24: the load of line 931, given no progress.json or one that cannot be
\* parsed, yields the empty tree and processCountry goes on to its listing:
\* nothing is raised into processCountry's catch.
C24_LoadOfMissingOrCorruptFile ==
    [][(/\ pc = "load" /\ pc' # "load"
        /\ (progressFile[country] = NoFile \/ IsTorn(progressFile[country])))
       => progressData' = EmptyTree /\ pc' = "list_states"]_vars
C24_Witness ==
    /\ IsTorn(startFile["MK"])
    /\ StartTree("MK") = EmptyTree
    /\ pc = "list_states"
    /\ progressData = EmptyTree

\* C25: a write that fails (the progress file, a city, state or cumulative
\* file, the country's export) changes nothing in memory that its success
\* would not: the leaves marked stay as they are, what has been accumulated
\* stays, what processCountry hands to main is what it would have handed,
\* and the run goes on to the step that follows the write.
LeafMarksKept ==
    /\ progressData'.states = progressData.states
    /\ progressData'.cities = progressData.cities
AccumulationKept ==
    /\ results' = results
    /\ cityResults' = cityResults
    /\ stateBusinesses' = stateBusinesses
C26_EveryFormatAttempted ==
    CallDone("exportResults") =>
        /\ Result.kind = "returned"
        /\ Result.attempted = call.script
C26_Witness ==
    /\ CallDone("exportResults")
    /\ Len(call.script) = 2 /\ call.script[1] # call.script[2]
    /\ call.script[1] \in call.failing /\ call.script[2] \notin call.failing
    /\ call.businesses # <<>>
    /\ Result.log = <<LogLine("failed", 1), LogLine("exported", 2)>>
    /\ Result.files[call.script[2]] = File(Written(call.script[2], call.businesses))

\* C27: after an export in which no write fails, the file of every
\* requested format holds the exported records and nothing else, the empty
\* list of records included.
C27_ExportIsFullSnapshot ==
    (CallDone("exportResults") /\ call.failing = {}) =>
        \A i \in DOMAIN call.script :
            Result.files[call.script[i]] = File(Written(call.script[i], call.businesses))

\* C28: no fetch is in flight while main is between two countries or a
\* country is still loading its tree and listing its states, and no fetch
\* has been issued for a country main's loop has not reached.
C28_CountriesOneAfterAnother ==
    /\ pc \in {"main", "summary", "load", "list_states"} => InFlight = {}
    /\ \A l \in Leaves, j \in DOMAIN targets :
          l[1] = targets[j] /\ searchCalls[l] > 0 => j <= ci
C28_Witness ==
    /\ proc = "running" /\ ci = 2
    /\ \E l \in Leaves : l[1] = targets[1] /\ searchCalls[l] > 0
    /\ \E f \in InFlight : searchCalls[Leaf(f)] > 0 /\ Leaf(f)[1] = targets[2]

\* C29: a country whose listing of states throws is left with nothing
\* fetched and nothing marked, main's loop moves to the country after it,
\* from there main enters that country, and main ends only past the last
\* country of the list.
C29_ListingFailureSkipsCountry ==
    [][/\ (pc = "list_states" /\ pc' = "main") =>
              /\ proc' = "running" /\ ci' = ci + 1
              /\ searchCalls' = searchCalls /\ progressData' = progressData
       /\ (pc = "main" /\ ci <= Len(targets) /\ pc' # "main") => pc' = "load"
       /\ exitBy' = "end" => ci' = Len(targets) + 1]_vars
C29_Witness ==
    /\ ~cfg.includeCities /\ listingFailed
    /\ proc = "running" /\ ci = 2 /\ pc = "state_fetch"
    /\ \A l \in Leaves : l[1] = targets[1] => searchCalls[l] = 0
    /\ flow[0].pc = "fetching"

\* C31: the cities of a state, once their workers are started, are
\* finished with unless an interrupt comes first; and when the wait of line
\* 838 is over every city of the state is marked, skipped (803) or
\* processed (821).
C31_CitiesOfStateFinish ==
    /\ (pc = "cities") ~> (isShuttingDown \/ pc # "cities")
    /\ [][(pc = "cities" /\ pc' # "cities")
            => CityKeysOf(country, state) \subseteq progressData'.cities]_vars
C31_Witness ==
    /\ cfg.includeCities /\ cfg.parallel = MaxParallel
    /\ ~isShuttingDown /\ pc = "main" /\ ci = 2 /\ ~listingFailed
    /\ \E s \in States :
          /\ CityKeysOf(targets[1], s) \subseteq progressData.cities
          /\ \A n \in Cities : searchCalls[<<targets[1], s, n>>] = 1

\* C32: in city mode every state marked in the tree in memory has every one
\* of its cities marked.
C32_StateMarkedOnlyWithItsCities ==
    cfg.includeCities =>
        \A c \in TargetSet, s \in States :
            StateKey(c, s) \in progressData.states => CityKeysOf(c, s) \subseteq progressData.cities
C32_Witness ==
    /\ cfg.includeCities /\ cfg.parallel = MaxParallel
    /\ \E s \in States :
          /\ StateKey(targets[1], s) \in progressData.states \ StartTree(targets[1]).states
          /\ CityKeysOf(targets[1], s) \cap StartTree(targets[1]).cities = {}
          /\ CityKeysOf(targets[1], s) \subseteq progressData.cities

\* C33: the interrupt flag, once set, stays set, and no step after the one
\* that set it writes a final export or ends the process again: the handler
\* has run its sequence once, and a later signal finds no handler to run.
C33_ShutdownStartedOnce ==
    [][isShuttingDown =>
        /\ isShuttingDown'
        /\ proc' = proc /\ exitBy' = exitBy
        /\ exportFile' = exportFile]_vars
C33_Witness ==
    /\ isShuttingDown /\ proc = "exited" /\ exitBy = "sigint"
    /\ pc = "save_state" /\ stateBusinesses # <<>>

\* C34: when main has a country back whose processing ended in an error
\* (here: a listing that threw), the country is counted as failed and not
\* as successful, and the two counts add up to the countries attempted.
C34_FailedCountryCountedFailed ==
    Returned1 =>
        /\ successfulCountries + failedCountries = ci - 1
        /\ listingFailed => failedCountries = 1 /\ successfulCountries = 0

\* C35: after the saves of two states, with every read and write
\* succeeding, cumulative.json holds a record of every identity key saved so
\* far and no two records of one key, and each save keeps the keys the file
\* held before it.
IdentityKeys(bs) == {IdentityKey(bs[i]) : i \in DOMAIN bs}
C35_CumulativeIsDedupUnion ==
    CallDone("saveStateResults") =>
        /\ \A i \in DOMAIN Result.after :
              /\ IdentityKeys(Result.after[i]) = UNION {IdentityKeys(call.script[j]) : j \in 1..i}
              /\ Cardinality(IdentityKeys(Result.after[i])) = Len(Result.after[i])
        /\ IdentityKeys(Result.after[1]) \subseteq IdentityKeys(Result.after[2])

\* C36: when searchGoogleMaps returns, a browser it launched is closed,
\* whatever threw on the way, the closing of the page included (a browser
\* whose own close throws is left aside).
C36_BrowserClosedOnReturn ==
    (CallDone("searchGoogleMaps") /\ ~call.outcome.browserClose) => ~Result.browserOpen

\* C37: during a call of searchGoogleMapsBatch no more than maxConcurrent
\* searches are in flight and all of them belong to the chunk the loop is
\* at, so that no chunk is started before the one before it has settled; and
\* what is returned has one entry per query, in the order of the queries.
C37_BatchBoundedAndOrdered ==
    (call.fn = "searchGoogleMapsBatch" /\ ret # NoReturn) =>
        /\ Cardinality(Result.inFlight) <= call.maxConcurrent
        /\ Result.kind = "running" => Result.inFlight \subseteq Places(Result.chunks[Result.i])
        /\ Result.kind = "returned" =>
              /\ Result.inFlight = {}
              /\ Len(Result.results) = Len(call.script)
              /\ \A j \in DOMAIN call.script :
                    Result.results[j] = Entry(call.script, j, Result.settled[j])
C37_Witness ==
    /\ call.fn = "searchGoogleMapsBatch" /\ ret # NoReturn
    /\ Len(call.script) = MaxQueries /\ call.maxConcurrent = 2
    /\ Result.kind = "returned"
    /\ Len(Result.chunks) >= 2
    /\ \E j, k \in DOMAIN call.script :
          /\ Result.settled[j].status = "rejected"
          /\ Result.settled[k].status = "fulfilled" /\ Result.settled[k].value # <<>>

====
